---- MODULE Spec2Model ----
(***************************************************************************)
(* Mergington High School activities API (src/src/app.py, models.py,       *)
(* database.py): the SQLite store with its three tables, the startup       *)
(* seeding, and the request handlers get_activities, signup_for_activity   *)
(* and unregister_from_activity, each run by a worker thread with a        *)
(* session of its own.  A handler is a sequence of steps, one per          *)
(* statement that reads or writes the store; steps of different workers    *)
(* interleave.                                                             *)
(***************************************************************************)
EXTENDS Integers, Sequences, FiniteSets, TLC

\* ------------------------------------------------------------------ bounds
\* Worker threads serving requests at the same time.
NumWorkers == 2
\* Places left in Math Club in the store of an earlier run (see UsedStore).
FreePlaces == 1

Workers == 1..NumWorkers

\* Inputs of the requests.
Names == {"Math Club", "Unknown Club"}
Emails == {"new@mergington.edu", "x@mergington.edu"}

\* Students who signed up for Math Club in an earlier run, in that order.
PriorStudents ==
    << "s1@mergington.edu", "s2@mergington.edu", "s3@mergington.edu",
       "s4@mergington.edu", "s5@mergington.edu", "s6@mergington.edu",
       "s7@mergington.edu", "s8@mergington.edu" >>

\* ------------------------------------------------------------ program data
INITIAL_ACTIVITIES ==
    << [name |-> "Chess Club",
        description |-> "Learn strategies and compete in chess tournaments",
        schedule |-> "Fridays, 3:30 PM - 5:00 PM",
        max_participants |-> 12,
        participants |-> <<"michael@mergington.edu", "daniel@mergington.edu">>],
       [name |-> "Programming Class",
        description |-> "Learn programming fundamentals and build software projects",
        schedule |-> "Tuesdays and Thursdays, 3:30 PM - 4:30 PM",
        max_participants |-> 20,
        participants |-> <<"emma@mergington.edu", "sophia@mergington.edu">>],
       [name |-> "Gym Class",
        description |-> "Physical education and sports activities",
        schedule |-> "Mondays, Wednesdays, Fridays, 2:00 PM - 3:00 PM",
        max_participants |-> 30,
        participants |-> <<"john@mergington.edu", "olivia@mergington.edu">>],
       [name |-> "Soccer Team",
        description |-> "Join the school soccer team and compete in matches",
        schedule |-> "Tuesdays and Thursdays, 4:00 PM - 5:30 PM",
        max_participants |-> 22,
        participants |-> <<"liam@mergington.edu", "noah@mergington.edu">>],
       [name |-> "Basketball Team",
        description |-> "Practice and play basketball with the school team",
        schedule |-> "Wednesdays and Fridays, 3:30 PM - 5:00 PM",
        max_participants |-> 15,
        participants |-> <<"ava@mergington.edu", "mia@mergington.edu">>],
       [name |-> "Art Club",
        description |-> "Explore your creativity through painting and drawing",
        schedule |-> "Thursdays, 3:30 PM - 5:00 PM",
        max_participants |-> 15,
        participants |-> <<"amelia@mergington.edu", "harper@mergington.edu">>],
       [name |-> "Drama Club",
        description |-> "Act, direct, and produce plays and performances",
        schedule |-> "Mondays and Wednesdays, 4:00 PM - 5:30 PM",
        max_participants |-> 20,
        participants |-> <<"ella@mergington.edu", "scarlett@mergington.edu">>],
       [name |-> "Math Club",
        description |-> "Solve challenging problems and participate in math competitions",
        schedule |-> "Tuesdays, 3:30 PM - 4:30 PM",
        max_participants |-> 10,
        participants |-> <<"james@mergington.edu", "benjamin@mergington.edu">>],
       [name |-> "Debate Team",
        description |-> "Develop public speaking and argumentation skills",
        schedule |-> "Fridays, 4:00 PM - 5:30 PM",
        max_participants |-> 12,
        participants |-> <<"charlotte@mergington.edu", "henry@mergington.edu">>] >>

\* ------------------------------------------------------------------- state
VARIABLES
    boot,                   \* the process: "down", "up" or "crashed"
    activity,               \* table activity: rows [id, name, description, schedule, max_participants]
    participant,            \* table participant: the emails (primary key)
    activity_participants,  \* table activity_participants: pairs <<activity_id, participant_email>>
    writer,                 \* the worker whose transaction holds SQLite's write lock, 0 for none
    pending,                \* that transaction's statements, not yet committed
    pc,                     \* per worker: the statement its handler is at
    req,                    \* per worker: the request [op, activity_name, email]
    activity_l,             \* per worker: id of the row its query of Activity returned, 0 for None
    participant_l,          \* per worker: whether its query of Participant returned a row
    activities_l,           \* per worker: the mapping get_activities has built so far
    response                \* per worker: the response [status, detail]

tables == <<activity, participant, activity_participants>>
vars == <<boot, activity, participant, activity_participants, writer, pending,
          pc, req, activity_l, participant_l, activities_l, response>>

NoRequest == [op |-> "none", activity_name |-> "", email |-> ""]
NoResponse == [status |-> 0, detail |-> <<>>]
NoPending == [participant |-> {}, insert |-> {}, delete |-> {}]

\* ---------------------------------------------------------------- models.py
\* Activity.participants: the participants joined to row a through the
\* association table.
Activity_participants(a) ==
    {p \in participant : <<a.id, p>> \in activity_participants}

\* Participant.activities: the activities joined to email p through the
\* association table.
Participant_activities(p) ==
    {a \in activity : <<a.id, p>> \in activity_participants}

\* The query without its filter: the first row, whatever its name.
QueryActivity_unfiltered(name) ==
    IF activity # {}
    THEN CHOOSE n \in {a.id : a \in activity} : \A a \in activity : n <= a.id
    ELSE 0

\* db.query(Activity).filter(Activity.name == name).first(): the id, 0 for None.
QueryActivity(name) ==
    IF \E a \in activity : a.name = name
    THEN (CHOOSE a \in activity : a.name = name).id
    ELSE 0

ActivityRow(id) == CHOOSE a \in activity : a.id = id

\* A to_dict that lists every participant of the directory.
to_dict_wholeDirectory(a) ==
    [name |-> a.name, description |-> a.description, schedule |-> a.schedule,
     max_participants |-> a.max_participants,
     participants |-> participant]

\* Activity.to_dict; the list of emails is read as a set.
to_dict(a) ==
    [name |-> a.name, description |-> a.description, schedule |-> a.schedule,
     max_participants |-> a.max_participants,
     participants |-> Activity_participants(a)]

\* ------------------------------------------------------------ the store
\* The rows startup_event builds from INITIAL_ACTIVITIES: ids are handed out
\* in insertion order after the ids already in the table.
LastId == IF activity = {} THEN 0
          ELSE CHOOSE n \in {a.id : a \in activity} : \A a \in activity : a.id <= n

SeedRows(first) ==
    {[id |-> first + i,
      name |-> INITIAL_ACTIVITIES[i].name,
      description |-> INITIAL_ACTIVITIES[i].description,
      schedule |-> INITIAL_ACTIVITIES[i].schedule,
      max_participants |-> INITIAL_ACTIVITIES[i].max_participants]
        : i \in DOMAIN INITIAL_ACTIVITIES}

\* The places <<i, j>> of the initial rosters.
SeedPlaces ==
    {pl \in (DOMAIN INITIAL_ACTIVITIES) \X (1..2) :
        pl[2] \in DOMAIN INITIAL_ACTIVITIES[pl[1]].participants}

SeedEmail(pl) == INITIAL_ACTIVITIES[pl[1]].participants[pl[2]]

SeedLinks(first) == {<<first + pl[1], SeedEmail(pl)>> : pl \in SeedPlaces}

\* What makes the flush of the seeding transaction fail: a name the unique
\* index already holds or holds twice, an email that is not in the table and
\* is met at two places (the session does not autoflush, so each place makes
\* a Participant of its own), or a pair met twice.
SeedConflict ==
    \/ \E i \in DOMAIN INITIAL_ACTIVITIES :
          \/ \E a \in activity : a.name = INITIAL_ACTIVITIES[i].name
          \/ \E k \in DOMAIN INITIAL_ACTIVITIES :
                k # i /\ INITIAL_ACTIVITIES[k].name = INITIAL_ACTIVITIES[i].name
    \/ \E p1, p2 \in SeedPlaces :
          /\ p1 # p2
          /\ SeedEmail(p1) = SeedEmail(p2)
          /\ (SeedEmail(p1) \notin participant \/ p1[1] = p2[1])

\* if db.query(Activity).count() == 0
CatalogIsEmpty_always == TRUE
CatalogIsEmpty == Cardinality(activity) = 0

MathClub == CHOOSE i \in DOMAIN INITIAL_ACTIVITIES : INITIAL_ACTIVITIES[i].name = "Math Club"

SeededEmails == {SeedEmail(pl) : pl \in SeedPlaces}

\* The students of an earlier run: all but `free' of the places the seed
\* leaves free in Math Club.
NumPrior(free) ==
    LET n == INITIAL_ACTIVITIES[MathClub].max_participants
                - Len(INITIAL_ACTIVITIES[MathClub].participants) - free
    IN  IF n < 0 THEN 0 ELSE IF n > Len(PriorStudents) THEN Len(PriorStudents) ELSE n

PriorEmails(free) == {PriorStudents[j] : j \in 1..NumPrior(free)}

\* A fresh database file, and the file an earlier run left: seeded, and with
\* the earlier sign-ups for Math Club.
FreshStore == <<{}, {}, {}>>
UsedStore(free) ==
    << SeedRows(0),
       SeededEmails \cup PriorEmails(free),
       SeedLinks(0) \cup {<<MathClub, e>> : e \in PriorEmails(free)} >>

Init ==
    /\ boot = "down"
    /\ \E store \in {FreshStore, UsedStore(FreePlaces)} :
          /\ activity = store[1]
          /\ participant = store[2]
          /\ activity_participants = store[3]
    /\ writer = 0
    /\ pending = NoPending
    /\ pc = [t \in Workers |-> "idle"]
    /\ req = [t \in Workers |-> NoRequest]
    /\ activity_l = [t \in Workers |-> 0]
    /\ participant_l = [t \in Workers |-> FALSE]
    /\ activities_l = [t \in Workers |-> <<>>]
    /\ response = [t \in Workers |-> NoResponse]

workerVars == <<pc, req, activity_l, participant_l, activities_l, response>>
txVars == <<writer, pending>>

\* ------------------------------------------------------------ the process
\* startup_event: seed the store when the catalog is empty.  The seeding is
\* one transaction; when its flush fails the startup fails.
startup_event ==
    /\ boot # "up"
    /\ \A t \in Workers : pc[t] = "idle"
    /\ IF CatalogIsEmpty
       THEN IF SeedConflict
            THEN /\ boot' = "crashed"
                 /\ UNCHANGED tables
            ELSE /\ boot' = "up"
                 /\ activity' = activity \cup SeedRows(LastId)
                 /\ participant' = participant \cup SeededEmails
                 /\ activity_participants' =
                        activity_participants \cup SeedLinks(LastId)
       ELSE /\ boot' = "up"
            /\ UNCHANGED tables
    /\ UNCHANGED <<txVars, workerVars>>

\* The process stops once the requests in flight have been answered.
Shutdown ==
    /\ boot = "up"
    /\ \A t \in Workers : pc[t] = "idle"
    /\ boot' = "down"
    /\ UNCHANGED <<tables, txVars, workerVars>>

\* ------------------------------------------------------------ the requests
\* The handler raises or returns: the worker's response, and its session is
\* closed (get_db's finally).
Finish(t, status, detail) ==
    /\ pc' = [pc EXCEPT ![t] = "done"]
    /\ response' = [response EXCEPT ![t] = [status |-> status, detail |-> detail]]
    /\ activity_l' = [activity_l EXCEPT ![t] = 0]
    /\ participant_l' = [participant_l EXCEPT ![t] = FALSE]
    /\ activities_l' = [activities_l EXCEPT ![t] = <<>>]

Goto(t, label) ==
    /\ pc' = [pc EXCEPT ![t] = label]
    /\ UNCHANGED <<response, activities_l>>

InFlight(t) == pc[t] \notin {"idle", "done"}

\* A request arrives at an idle worker and get_db opens its session.
get_db(t, op, name, email) ==
    /\ boot = "up"
    /\ pc[t] = "idle"
    /\ req' = [req EXCEPT ![t] = [op |-> op, activity_name |-> name, email |-> email]]

\* The client has its response; the worker takes the next request.
Return(t) ==
    /\ pc[t] = "done"
    /\ pc' = [pc EXCEPT ![t] = "idle"]
    /\ req' = [req EXCEPT ![t] = NoRequest]
    /\ response' = [response EXCEPT ![t] = NoResponse]
    /\ UNCHANGED <<boot, tables, txVars, activity_l, participant_l, activities_l>>

\* The request's activity row and its pair of the association table.
Row(t) == ActivityRow(activity_l[t])

\* A pair that joins the email to the first activity of the catalog.
Pair_firstActivity(t) == <<1, req[t].email>>

Pair(t) == <<activity_l[t], req[t].email>>

\* A COMMIT that loses the new rows of table participant.
COMMIT_linksOnly(t) ==
    /\ activity_participants' =
          (activity_participants \cup pending.insert) \ pending.delete
    /\ UNCHANGED <<activity, participant>>
    /\ writer' = 0
    /\ pending' = NoPending

\* A COMMIT that keeps SQLite's write lock.
COMMIT_keepLock(t) ==
    /\ participant' = participant \cup pending.participant
    /\ activity_participants' =
          (activity_participants \cup pending.insert) \ pending.delete
    /\ UNCHANGED activity
    /\ writer' = writer
    /\ pending' = NoPending

\* Session.commit ends the transaction: its statements reach the tables all
\* at once and the write lock is released.
COMMIT(t) ==
    /\ participant' = participant \cup pending.participant
    /\ activity_participants' =
          (activity_participants \cup pending.insert) \ pending.delete
    /\ UNCHANGED activity
    /\ writer' = 0
    /\ pending' = NoPending

\* The flush raised: the transaction is rolled back, the lock released, and
\* the exception leaves the handler (FastAPI answers 500).
ROLLBACK(t, exception) ==
    /\ writer' = 0
    /\ pending' = NoPending
    /\ Finish(t, 500, <<exception>>)
    /\ UNCHANGED <<boot, tables, req>>

\* The statement needs SQLite's write lock and another transaction holds it:
\* the connection waits (the engine sets no timeout, so sqlite3's 5 s) and
\* when the lock is not free by then raises OperationalError.  Nothing of
\* this request has been written; FastAPI answers 500.
Busy(t) ==
    /\ Finish(t, 500, <<"OperationalError: database is locked">>)
    /\ UNCHANGED <<boot, tables, txVars, req>>

\* ------------------------------------------------- signup_for_activity
\* The request arrives; activity = db.query(Activity).filter(
\* Activity.name == activity_name).first(); 404 when there is none.
signup_for_activity(t, activity_name, email) ==
    /\ get_db(t, "signup", activity_name, email)
    /\ IF QueryActivity(activity_name) = 0
       THEN Finish(t, 404, <<"Activity not found">>)
       ELSE /\ activity_l' = [activity_l EXCEPT ![t] = QueryActivity(activity_name)]
            /\ Goto(t, "query_participant")
            /\ UNCHANGED participant_l
    /\ UNCHANGED <<boot, tables, txVars>>

Signup_QueryActivity(t) ==
    \E name \in Names, email \in Emails : signup_for_activity(t, name, email)

\* A query that creates the participant it does not find, at once.
Signup_QueryParticipant_getOrCreate(t) ==
    /\ pc[t] = "query_participant" /\ req[t].op = "signup"
    /\ participant' = participant \cup {req[t].email}
    /\ participant_l' = [participant_l EXCEPT ![t] = TRUE]
    /\ Goto(t, "check_signed_up")
    /\ UNCHANGED <<boot, activity, activity_participants, txVars, req, activity_l>>

\* participant = db.query(Participant).filter(Participant.email == email).first()
Signup_QueryParticipant(t) ==
    /\ pc[t] = "query_participant" /\ req[t].op = "signup"
    /\ participant_l' = [participant_l EXCEPT ![t] = req[t].email \in participant]
    /\ Goto(t, "check_signed_up")
    /\ UNCHANGED <<boot, tables, txVars, req, activity_l>>

\* The handler without its check for a registered pair.
Signup_CheckSignedUp_unchecked(t) ==
    /\ pc[t] = "check_signed_up" /\ req[t].op = "signup"
    /\ Goto(t, "check_full")
    /\ UNCHANGED <<boot, tables, txVars, req, activity_l, participant_l>>

\* The handler with the capacity check put before the check for a
\* registered pair.
Signup_CheckSignedUp_fullFirst(t) ==
    /\ pc[t] = "check_signed_up" /\ req[t].op = "signup"
    /\ IF Cardinality(Activity_participants(Row(t))) >= Row(t).max_participants
       THEN Finish(t, 400, <<"Activity is full">>)
       ELSE IF participant_l[t] /\ Row(t) \in Participant_activities(req[t].email)
       THEN Finish(t, 400, <<"Student is already signed up">>)
       ELSE /\ Goto(t, "check_full")
            /\ UNCHANGED <<activity_l, participant_l>>
    /\ UNCHANGED <<boot, tables, txVars, req>>

\* if participant and activity in participant.activities: 400
Signup_CheckSignedUp(t) ==
    /\ pc[t] = "check_signed_up" /\ req[t].op = "signup"
    /\ IF participant_l[t] /\ Row(t) \in Participant_activities(req[t].email)
       THEN Finish(t, 400, <<"Student is already signed up">>)
       ELSE /\ Goto(t, "check_full")
            /\ UNCHANGED <<activity_l, participant_l>>
    /\ UNCHANGED <<boot, tables, txVars, req>>

\* The capacity check with > for >=.
Signup_CheckFull_offByOne(t) ==
    /\ pc[t] = "check_full" /\ req[t].op = "signup"
    /\ IF Cardinality(Activity_participants(Row(t))) > Row(t).max_participants
       THEN Finish(t, 400, <<"Activity is full">>)
       ELSE /\ Goto(t, IF participant_l[t] THEN "flush_link" ELSE "flush_participant")
            /\ UNCHANGED <<activity_l, participant_l>>
    /\ UNCHANGED <<boot, tables, txVars, req>>

\* A capacity check that keeps the last place free.
Signup_CheckFull_oneSpare(t) ==
    /\ pc[t] = "check_full" /\ req[t].op = "signup"
    /\ IF Cardinality(Activity_participants(Row(t))) + 1 >= Row(t).max_participants
       THEN Finish(t, 400, <<"Activity is full">>)
       ELSE /\ Goto(t, IF participant_l[t] THEN "flush_link" ELSE "flush_participant")
            /\ UNCHANGED <<activity_l, participant_l>>
    /\ UNCHANGED <<boot, tables, txVars, req>>

\* if len(activity.participants) >= activity.max_participants: 400;
\* then the new Participant, if any, and the append, both in the session.
Signup_CheckFull(t) ==
    /\ pc[t] = "check_full" /\ req[t].op = "signup"
    /\ IF Cardinality(Activity_participants(Row(t))) >= Row(t).max_participants
       THEN Finish(t, 400, <<"Activity is full">>)
       ELSE /\ Goto(t, IF participant_l[t] THEN "flush_link" ELSE "flush_participant")
            /\ UNCHANGED <<activity_l, participant_l>>
    /\ UNCHANGED <<boot, tables, txVars, req>>

\* The INSERT run in autocommit mode: the row is in the table at once.
Signup_FlushParticipant_autocommit(t) ==
    /\ pc[t] = "flush_participant" /\ req[t].op = "signup"
    /\ IF writer # 0 THEN Busy(t)
       ELSE IF req[t].email \in participant
       THEN ROLLBACK(t, "IntegrityError: participant.email")
       ELSE /\ participant' = participant \cup {req[t].email}
            /\ Goto(t, "flush_link")
            /\ UNCHANGED <<boot, activity, activity_participants, txVars, req,
                           activity_l, participant_l>>

\* db.commit(), the flush: INSERT INTO participant.
Signup_FlushParticipant(t) ==
    /\ pc[t] = "flush_participant" /\ req[t].op = "signup"
    /\ IF writer # 0 THEN Busy(t)
       ELSE IF req[t].email \in participant
       THEN ROLLBACK(t, "IntegrityError: participant.email")
       ELSE /\ writer' = t
            /\ pending' = [pending EXCEPT !.participant = {req[t].email}]
            /\ Goto(t, "flush_link")
            /\ UNCHANGED <<boot, tables, req, activity_l, participant_l>>

\* An INSERT into an association table that has no primary key.
Signup_FlushLink_noKey(t) ==
    /\ pc[t] = "flush_link" /\ req[t].op = "signup"
    /\ IF writer \notin {0, t} THEN Busy(t)
       ELSE /\ writer' = t
            /\ pending' = [pending EXCEPT !.insert = {Pair(t)}]
            /\ Goto(t, "commit")
            /\ UNCHANGED <<boot, tables, req, activity_l, participant_l>>

\* db.commit(), the flush: INSERT INTO activity_participants; the pair is
\* the table's primary key, a second row with it raises IntegrityError.
Signup_FlushLink(t) ==
    /\ pc[t] = "flush_link" /\ req[t].op = "signup"
    /\ IF writer \notin {0, t} THEN Busy(t)
       ELSE IF Pair(t) \in activity_participants
       THEN ROLLBACK(t, "IntegrityError: activity_participants")
       ELSE /\ writer' = t
            /\ pending' = [pending EXCEPT !.insert = {Pair(t)}]
            /\ Goto(t, "commit")
            /\ UNCHANGED <<boot, tables, req, activity_l, participant_l>>

\* db.commit(), the COMMIT; return {"message": ...}
Signup_Commit(t) ==
    /\ pc[t] = "commit" /\ req[t].op = "signup"
    /\ writer = t
    /\ COMMIT(t)
    /\ Finish(t, 200, <<"Signed up", req[t].email, "for", req[t].activity_name>>)
    /\ UNCHANGED <<boot, req>>

\* ---------------------------------------------- unregister_from_activity
\* The request arrives; activity = db.query(Activity).filter(
\* Activity.name == activity_name).first(); 404 when there is none.
unregister_from_activity(t, activity_name, email) ==
    /\ get_db(t, "unregister", activity_name, email)
    /\ IF QueryActivity(activity_name) = 0
       THEN Finish(t, 404, <<"Activity not found">>)
       ELSE /\ activity_l' = [activity_l EXCEPT ![t] = QueryActivity(activity_name)]
            /\ Goto(t, "query_participant")
            /\ UNCHANGED participant_l
    /\ UNCHANGED <<boot, tables, txVars>>

Unregister_QueryActivity(t) ==
    \E name \in Names, email \in Emails : unregister_from_activity(t, name, email)

\* participant = db.query(Participant).filter(Participant.email == email).first()
Unregister_QueryParticipant(t) ==
    /\ pc[t] = "query_participant" /\ req[t].op = "unregister"
    /\ participant_l' = [participant_l EXCEPT ![t] = req[t].email \in participant]
    /\ Goto(t, "check_signed_up")
    /\ UNCHANGED <<boot, tables, txVars, req, activity_l>>

\* The check without its second half: any known participant passes.
Unregister_CheckSignedUp_anyParticipant(t) ==
    /\ pc[t] = "check_signed_up" /\ req[t].op = "unregister"
    /\ IF ~participant_l[t]
       THEN Finish(t, 400, <<"Student is not signed up for this activity">>)
       ELSE /\ Goto(t, "remove")
            /\ UNCHANGED <<activity_l, participant_l>>
    /\ UNCHANGED <<boot, tables, txVars, req>>

\* if not participant or activity not in participant.activities: 400
Unregister_CheckSignedUp(t) ==
    /\ pc[t] = "check_signed_up" /\ req[t].op = "unregister"
    /\ IF ~participant_l[t] \/ Row(t) \notin Participant_activities(req[t].email)
       THEN Finish(t, 400, <<"Student is not signed up for this activity">>)
       ELSE /\ Goto(t, "remove")
            /\ UNCHANGED <<activity_l, participant_l>>
    /\ UNCHANGED <<boot, tables, txVars, req>>

\* activity.participants.remove(participant): the list is loaded here, and
\* list.remove raises ValueError when the participant is not in it.
Unregister_Remove(t) ==
    /\ pc[t] = "remove" /\ req[t].op = "unregister"
    /\ IF req[t].email \notin Activity_participants(Row(t))
       THEN Finish(t, 500, <<"ValueError: list.remove(x): x not in list">>)
       ELSE /\ Goto(t, "flush_delete")
            /\ UNCHANGED <<activity_l, participant_l>>
    /\ UNCHANGED <<boot, tables, txVars, req>>

\* A flush that deletes every pair of the activity.
Unregister_FlushDelete_wholeRoster(t) ==
    /\ pc[t] = "flush_delete" /\ req[t].op = "unregister"
    /\ IF writer # 0 THEN Busy(t)
       ELSE /\ writer' = t
            /\ pending' = [pending EXCEPT !.delete =
                              {l \in activity_participants : l[1] = activity_l[t]}]
            /\ Goto(t, "commit")
            /\ UNCHANGED <<boot, tables, req, activity_l, participant_l>>

\* db.commit(), the flush: DELETE FROM activity_participants; a DELETE that
\* matches no row raises StaleDataError.
Unregister_FlushDelete(t) ==
    /\ pc[t] = "flush_delete" /\ req[t].op = "unregister"
    /\ IF writer # 0 THEN Busy(t)
       ELSE IF Pair(t) \notin activity_participants
       THEN ROLLBACK(t, "StaleDataError: activity_participants")
       ELSE /\ writer' = t
            /\ pending' = [pending EXCEPT !.delete = {Pair(t)}]
            /\ Goto(t, "commit")
            /\ UNCHANGED <<boot, tables, req, activity_l, participant_l>>

\* An unregister that also deletes the participant it left without activity.
Unregister_Commit_deleteOrphan(t) ==
    /\ pc[t] = "commit" /\ req[t].op = "unregister"
    /\ writer = t
    /\ activity_participants' = activity_participants \ pending.delete
    /\ participant' =
          IF \E l \in activity_participants' : l[2] = req[t].email
          THEN participant
          ELSE participant \ {req[t].email}
    /\ UNCHANGED activity
    /\ writer' = 0
    /\ pending' = NoPending
    /\ Finish(t, 200, <<"Unregistered", req[t].email, "from", req[t].activity_name>>)
    /\ UNCHANGED <<boot, req>>

\* db.commit(), the COMMIT; return {"message": ...}
Unregister_Commit(t) ==
    /\ pc[t] = "commit" /\ req[t].op = "unregister"
    /\ writer = t
    /\ COMMIT(t)
    /\ Finish(t, 200, <<"Unregistered", req[t].email, "from", req[t].activity_name>>)
    /\ UNCHANGED <<boot, req>>

\* --------------------------------------------------------- get_activities
\* The request arrives; activities = db.query(Activity).all().  No request
\* writes table activity, so the rows the comprehension walks through are
\* the rows of the table.
get_activities(t) ==
    /\ get_db(t, "list", "", "")
    /\ IF activity = {}
       THEN Finish(t, 200, <<>>)
       ELSE /\ Goto(t, "to_dict")
            /\ UNCHANGED <<activity_l, participant_l>>
    /\ UNCHANGED <<boot, tables, txVars>>

\* The rows the comprehension has not come to, and the next of them, in
\* the order of the query.
Unlisted(t) == {a \in activity : a.name \notin DOMAIN activities_l[t]}
NextRow(t) == CHOOSE a \in Unlisted(t) : \A b \in Unlisted(t) : a.id <= b.id

\* {activity.name: activity.to_dict() for activity in activities}, one
\* activity: to_dict loads the row's participants with a SELECT of its own.
\* After the last row the mapping is returned.
Activity_to_dict(t) ==
    /\ pc[t] = "to_dict" /\ req[t].op = "list"
    /\ LET a == NextRow(t)
           listed == [n \in DOMAIN activities_l[t] \cup {a.name} |->
                        IF n = a.name THEN to_dict(a) ELSE activities_l[t][n]]
       IN  IF Unlisted(t) = {a}
           THEN Finish(t, 200, listed)
           ELSE /\ activities_l' = [activities_l EXCEPT ![t] = listed]
                /\ UNCHANGED <<pc, response, activity_l, participant_l>>
    /\ UNCHANGED <<boot, tables, txVars, req>>

\* ------------------------------------------------------------------- Next
\* A response leaves as soon as its handler has ended, before any worker
\* takes its next step: Return changes nothing another step reads, so no
\* state of the store and no step of a handler is lost by this order.
Delivered == \A u \in Workers : pc[u] # "done"

Next ==
    \/ startup_event
    \/ Shutdown
    \/ \E t \in Workers : Return(t)
    \/ \E t \in Workers : Delivered /\ Signup_QueryActivity(t)
    \/ \E t \in Workers : Delivered /\ Signup_QueryParticipant(t)
    \/ \E t \in Workers : Delivered /\ Signup_CheckSignedUp(t)
    \/ \E t \in Workers : Delivered /\ Signup_CheckFull(t)
    \/ \E t \in Workers : Delivered /\ Signup_FlushParticipant(t)
    \/ \E t \in Workers : Delivered /\ Signup_FlushLink(t)
    \/ \E t \in Workers : Delivered /\ Signup_Commit(t)
    \/ \E t \in Workers : Delivered /\ Unregister_QueryActivity(t)
    \/ \E t \in Workers : Delivered /\ Unregister_QueryParticipant(t)
    \/ \E t \in Workers : Delivered /\ Unregister_CheckSignedUp(t)
    \/ \E t \in Workers : Delivered /\ Unregister_Remove(t)
    \/ \E t \in Workers : Delivered /\ Unregister_FlushDelete(t)
    \/ \E t \in Workers : Delivered /\ Unregister_Commit(t)

Spec == Init /\ [][Next]_vars

\* One caller at a time: a request is sent only after the one before it was
\* answered, so at most one handler is running.  The caller also lists the
\* activities.
NoneInFlight == \A u \in Workers : pc[u] = "idle"

SerialNext ==
    \/ startup_event
    \/ Shutdown
    \/ \E t \in Workers : Return(t)
    \/ \E t \in Workers : NoneInFlight /\ Signup_QueryActivity(t)
    \/ \E t \in Workers : Signup_QueryParticipant(t)
    \/ \E t \in Workers : Signup_CheckSignedUp(t)
    \/ \E t \in Workers : Signup_CheckFull(t)
    \/ \E t \in Workers : Signup_FlushParticipant(t)
    \/ \E t \in Workers : Signup_FlushLink(t)
    \/ \E t \in Workers : Signup_Commit(t)
    \/ \E t \in Workers : NoneInFlight /\ Unregister_QueryActivity(t)
    \/ \E t \in Workers : Unregister_QueryParticipant(t)
    \/ \E t \in Workers : Unregister_CheckSignedUp(t)
    \/ \E t \in Workers : Unregister_Remove(t)
    \/ \E t \in Workers : Unregister_FlushDelete(t)
    \/ \E t \in Workers : Unregister_Commit(t)
    \/ \E t \in Workers : NoneInFlight /\ get_activities(t)
    \/ \E t \in Workers : Activity_to_dict(t)

Serial == Init /\ [][SerialNext]_vars

\* ---------------------------------------------------- concurrent sign-ups
\* Every worker gets one sign-up for Math Club, each for an email of its
\* own that the store does not know, and the requests run side by side.
RaceEmails ==
    << "new@mergington.edu", "x@mergington.edu", "y@mergington.edu",
       "z@mergington.edu" >>

RaceEmail(t) == RaceEmails[((t - 1) % Len(RaceEmails)) + 1]

RaceInit ==
    /\ boot = "up"
    /\ \E free \in 0..NumWorkers :
          /\ activity = UsedStore(free)[1]
          /\ participant = UsedStore(free)[2]
          /\ activity_participants = UsedStore(free)[3]
    /\ writer = 0
    /\ pending = NoPending
    /\ pc = [t \in Workers |-> "idle"]
    /\ req = [t \in Workers |-> NoRequest]
    /\ activity_l = [t \in Workers |-> 0]
    /\ participant_l = [t \in Workers |-> FALSE]
    /\ activities_l = [t \in Workers |-> <<>>]
    /\ response = [t \in Workers |-> NoResponse]

RaceNext ==
    \/ \E t \in Workers : signup_for_activity(t, "Math Club", RaceEmail(t))
    \/ \E t \in Workers : Signup_QueryParticipant(t)
    \/ \E t \in Workers : Signup_CheckSignedUp(t)
    \/ \E t \in Workers : Signup_CheckFull(t)
    \/ \E t \in Workers : Signup_FlushParticipant(t)
    \/ \E t \in Workers : Signup_FlushLink(t)
    \/ \E t \in Workers : Signup_Commit(t)

Race == RaceInit /\ [][RaceNext]_vars

\* ------------------------------------------- concurrent sign-ups, one pair
\* Every worker gets one sign-up for Math Club, all for the same email, and
\* the requests run side by side.  The email is new to the store, or that
\* of a student of another activity.
SamePairEmails == Emails \cup {INITIAL_ACTIVITIES[1].participants[1]}

SamePairNext ==
    \/ \E t \in Workers, e \in SamePairEmails :
          /\ \A u \in Workers : req[u].op = "none" \/ req[u].email = e
          /\ signup_for_activity(t, "Math Club", e)
    \/ \E t \in Workers : Signup_QueryParticipant(t)
    \/ \E t \in Workers : Signup_CheckSignedUp(t)
    \/ \E t \in Workers : Signup_CheckFull(t)
    \/ \E t \in Workers : Signup_FlushParticipant(t)
    \/ \E t \in Workers : Signup_FlushLink(t)
    \/ \E t \in Workers : Signup_Commit(t)

SamePair == RaceInit /\ [][SamePairNext]_vars

\* ------------------------------------------------------------ round trips
\* One caller signs an email up for Math Club and, when that is answered,
\* unregisters the same email, again and again, with no request between.
SignedUp == {e \in Emails : <<QueryActivity("Math Club"), e>> \in activity_participants}

RoundTripNext ==
    \/ \E t \in Workers : Return(t)
    \/ \E t \in Workers, e \in Emails :
          NoneInFlight /\ SignedUp = {} /\ signup_for_activity(t, "Math Club", e)
    \/ \E t \in Workers : Signup_QueryParticipant(t)
    \/ \E t \in Workers : Signup_CheckSignedUp(t)
    \/ \E t \in Workers : Signup_CheckFull(t)
    \/ \E t \in Workers : Signup_FlushParticipant(t)
    \/ \E t \in Workers : Signup_FlushLink(t)
    \/ \E t \in Workers : Signup_Commit(t)
    \/ \E t \in Workers, e \in SignedUp :
          NoneInFlight /\ unregister_from_activity(t, "Math Club", e)
    \/ \E t \in Workers : Unregister_QueryParticipant(t)
    \/ \E t \in Workers : Unregister_CheckSignedUp(t)
    \/ \E t \in Workers : Unregister_Remove(t)
    \/ \E t \in Workers : Unregister_FlushDelete(t)
    \/ \E t \in Workers : Unregister_Commit(t)

RoundTrip == RaceInit /\ [][RoundTripNext]_vars

\* ------------------------------------------------------------ freed places
\* Math Club is full.  One caller unregisters one of its participants and,
\* when that is answered, signs up an email that is not registered, again
\* and again, with no request between.
MathClubRoster == Activity_participants(ActivityRow(QueryActivity("Math Club")))
MathClubIsFull ==
    Cardinality(MathClubRoster) >= ActivityRow(QueryActivity("Math Club")).max_participants

ReuseInit == RaceInit /\ MathClubIsFull

ReuseNext ==
    \/ \E t \in Workers : Return(t)
    \/ \E t \in Workers, e \in MathClubRoster :
          NoneInFlight /\ MathClubIsFull /\ unregister_from_activity(t, "Math Club", e)
    \/ \E t \in Workers : Unregister_QueryParticipant(t)
    \/ \E t \in Workers : Unregister_CheckSignedUp(t)
    \/ \E t \in Workers : Unregister_Remove(t)
    \/ \E t \in Workers : Unregister_FlushDelete(t)
    \/ \E t \in Workers : Unregister_Commit(t)
    \/ \E t \in Workers, f \in Emails \ MathClubRoster :
          NoneInFlight /\ ~MathClubIsFull /\ signup_for_activity(t, "Math Club", f)
    \/ \E t \in Workers : Signup_QueryParticipant(t)
    \/ \E t \in Workers : Signup_CheckSignedUp(t)
    \/ \E t \in Workers : Signup_CheckFull(t)
    \/ \E t \in Workers : Signup_FlushParticipant(t)
    \/ \E t \in Workers : Signup_FlushLink(t)
    \/ \E t \in Workers : Signup_Commit(t)

Reuse == ReuseInit /\ [][ReuseNext]_vars

\* ------------------------------------------------------------ scheduling
\* The worker threads are scheduled by the operating system, each on its
\* own; a handler has no statement that waits for another thread except the
\* statements of db.commit(), and those end when the lock is free or the
\* busy timeout is over.  So a handler that has a next statement runs it in
\* the end, and a response that is ready is sent in the end; nothing makes
\* a request arrive.  Requests of all three kinds run side by side.
Handler(t) ==
    \/ Signup_QueryParticipant(t)
    \/ Signup_CheckSignedUp(t)
    \/ Signup_CheckFull(t)
    \/ Signup_FlushParticipant(t)
    \/ Signup_FlushLink(t)
    \/ Signup_Commit(t)
    \/ Unregister_QueryParticipant(t)
    \/ Unregister_CheckSignedUp(t)
    \/ Unregister_Remove(t)
    \/ Unregister_FlushDelete(t)
    \/ Unregister_Commit(t)
    \/ Activity_to_dict(t)

LiveNext ==
    \/ startup_event
    \/ Shutdown
    \/ \E t \in Workers : Return(t)
    \/ \E t \in Workers : Signup_QueryActivity(t)
    \/ \E t \in Workers : Unregister_QueryActivity(t)
    \/ \E t \in Workers : get_activities(t)
    \/ \E t \in Workers : Handler(t)

Live ==
    /\ Init /\ [][LiveNext]_vars
    /\ \A t \in Workers : WF_vars(Handler(t)) /\ WF_vars(Return(t))

\* ------------------------------------------------------------- properties
\* Worker t takes a step of its handler; the step ends its request.
Steps(t) == pc'[t] # pc[t] /\ pc[t] # "done"
Finishes(t) == Steps(t) /\ pc'[t] = "done"

\* The request is for an activity of the catalog; its pair is registered.
Known(r) == \E a \in activity : a.name = r.activity_name
PairOf(r) == <<QueryActivity(r.activity_name), r.email>>
Registered(r) == Known(r) /\ PairOf(r) \in activity_participants
RowOf(r) == ActivityRow(QueryActivity(r.activity_name))
Full(r) == Cardinality(Activity_participants(RowOf(r))) >= RowOf(r).max_participants

Answer(t, status, detail) ==
    response'[t] = [status |-> status, detail |-> detail]

SignedUpBy(t) ==
    /\ pc[t] = "done" /\ req[t].op = "signup" /\ response[t].status = 200

\* C1: no activity ever has more participants than max_participants.
C1_CapacityInvariant ==
    \A a \in activity :
        Cardinality(Activity_participants(a)) <= a.max_participants

\* C2: when every worker has run one sign-up for Math Club, each for an
\* email of its own, side by side, and the club had C places left, fewer
\* than there are workers, then exactly C sign-ups succeeded, every other
\* one was answered 400 "Activity is full", and the club is exactly full.
C2_RaceForLastSlots ==
    (\A t \in Workers : pc[t] = "done") =>
        LET club == ActivityRow(MathClub)
            won == {t \in Workers : response[t].status = 200}
            size == Cardinality(Activity_participants(club))
            C == club.max_participants - (size - Cardinality(won))
        IN  C < NumWorkers =>
                /\ Cardinality(won) = C
                /\ size = club.max_participants
                /\ \A t \in Workers \ won :
                      response[t] = [status |-> 400, detail |-> <<"Activity is full">>]

\* C3: a sign-up for a pair that is registered (a sign-up before it
\* succeeded and no unregister came between) is answered 400 "Student is
\* already signed up", and no step of it changes a table; the pair stays in
\* the association table.
C3_SecondSignupConflict ==
    [][\A t \in Workers :
          (Steps(t) /\ req'[t].op = "signup" /\ Registered(req'[t])) =>
              /\ tables' = tables
              /\ PairOf(req'[t]) \in activity_participants'
              /\ Finishes(t) =>
                    Answer(t, 400, <<"Student is already signed up">>)]_vars

C3_Witness ==
    \E t \in Workers :
        /\ pc[t] = "done" /\ req[t].op = "signup"
        /\ response[t] = [status |-> 400, detail |-> <<"Student is already signed up">>]
        /\ req[t].email \notin SeededEmails
        /\ Registered(req[t])

\* C4: an unregister for a registered pair succeeds, and then the pair is
\* gone as seen from the activity and as seen from the participant; an
\* unregister for an email that is unknown or not registered in the activity
\* is answered 400 "Student is not signed up for this activity" and changes
\* no table.
C4_Unregister ==
    [][\A t \in Workers :
          (Steps(t) /\ req'[t].op = "unregister" /\ Known(req'[t])) =>
              IF Registered(req'[t])
              THEN Finishes(t) =>
                   /\ Answer(t, 200, <<"Unregistered", req'[t].email, "from",
                                       req'[t].activity_name>>)
                   /\ \A a \in activity', p \in participant' :
                         (a.name = req'[t].activity_name /\ p = req'[t].email) =>
                             /\ p \notin Activity_participants(a)'
                             /\ a \notin Participant_activities(p)'
                   /\ PairOf(req'[t]) \notin activity_participants'
              ELSE /\ tables' = tables
                   /\ Finishes(t) =>
                         Answer(t, 400, <<"Student is not signed up for this activity">>)]_vars

C4_Witness ==
    \E t \in Workers :
        /\ pc[t] = "done" /\ req[t].op = "unregister" /\ response[t].status = 200
        /\ req[t].email \in participant
        /\ ~Registered(req[t])

\* C5: a sign-up or an unregister that names no activity of the catalog is
\* answered 404 "Activity not found" at once, whatever the email, and
\* changes no table: no participant is created.
C5_UnknownActivity ==
    [][\A t \in Workers :
          (Steps(t) /\ pc[t] = "idle" /\ ~Known(req'[t])) =>
              /\ pc'[t] = "done"
              /\ Answer(t, 404, <<"Activity not found">>)
              /\ tables' = tables
              /\ pending' = pending]_vars

C5_Witness ==
    \E t \in Workers :
        /\ pc[t] = "done" /\ req[t].op = "signup" /\ ~Known(req[t])
        /\ response[t] = [status |-> 404, detail |-> <<"Activity not found">>]
        /\ req[t].email \notin participant

\* C6: a sign-up for an email that is not registered in the activity, sent
\* when the activity has max_participants participants or more, is answered
\* 400 "Activity is full", and no step of it changes a table.
C6_ActivityFull ==
    [][\A t \in Workers :
          (Steps(t) /\ req'[t].op = "signup" /\ Known(req'[t])
              /\ ~Registered(req'[t]) /\ Full(req'[t])) =>
              /\ tables' = tables
              /\ Finishes(t) => Answer(t, 400, <<"Activity is full">>)]_vars

C6_Witness ==
    \E t \in Workers :
        /\ pc[t] = "done" /\ req[t].op = "signup"
        /\ response[t] = [status |-> 400, detail |-> <<"Activity is full">>]
        /\ ~Registered(req[t]) /\ Full(req[t])

\* C7: no sign-up fails because another sign-up created the participant
\* with its email first: the second INSERT INTO participant never raises.
C7_CreationRaceNoError ==
    \A t \in Workers :
        response[t].detail # <<"IntegrityError: participant.email">>

\* C8: a step changes the tables by the whole effect of one request or not
\* at all: a sign-up that is answered 200 adds its pair and, with it, its
\* participant when the email was new; an unregister that is answered 200
\* removes its pair; the seeding adds the whole catalog; any other step,
\* and a request that fails at any statement of its commit, changes no
\* table and leaves nothing of its transaction behind.  No email gets into
\* table participant without a pair of its own in the same step.
C8_Atomicity ==
    [][/\ \/ tables' = tables
          \/ \E t \in Workers :
                /\ Finishes(t) /\ req[t].op = "signup" /\ response'[t].status = 200
                /\ Pair(t) \notin activity_participants
                /\ activity_participants' = activity_participants \cup {Pair(t)}
                /\ participant' = participant \cup {req[t].email}
                /\ activity' = activity
          \/ \E t \in Workers :
                /\ Finishes(t) /\ req[t].op = "unregister" /\ response'[t].status = 200
                /\ Pair(t) \in activity_participants
                /\ activity_participants' = activity_participants \ {Pair(t)}
                /\ participant' = participant
                /\ activity' = activity
          \/ /\ boot # "up" /\ boot' = "up" /\ activity = {}
             /\ activity' = SeedRows(0)
             /\ participant' = participant \cup SeededEmails
             /\ activity_participants' = activity_participants \cup SeedLinks(0)
       /\ \A t \in Workers :
             (Finishes(t) /\ response'[t].status # 200) =>
                 /\ tables' = tables
                 /\ writer = t => (writer' = 0 /\ pending' = NoPending)
       /\ \A e \in participant' \ participant :
             \E l \in activity_participants' : l[2] = e]_vars

C8_Witness ==
    \E t \in Workers :
        /\ SignedUpBy(t)
        /\ req[t].email \in participant
        /\ Registered(req[t])
        /\ writer = 0 /\ pending = NoPending

\* C9: a startup on a store that holds the catalog succeeds and changes no
\* table: no row is added, no capacity reset, no roster changed, whatever
\* sign-ups and unregisters came before; and while the process is up the
\* store holds exactly one activity per entry of INITIAL_ACTIVITIES, with
\* the entry's fields, and a participant for every email of the rosters.
C9_IdempotentSeeding ==
    /\ [][(boot # "up" /\ boot' # boot /\ activity # {}) =>
              (boot' = "up" /\ tables' = tables)]_vars
    /\ [](boot = "up" =>
              /\ Cardinality(activity) = Len(INITIAL_ACTIVITIES)
              /\ \A i \in DOMAIN INITIAL_ACTIVITIES :
                    \E a \in activity :
                        /\ a.name = INITIAL_ACTIVITIES[i].name
                        /\ a.max_participants = INITIAL_ACTIVITIES[i].max_participants
                        /\ a.description = INITIAL_ACTIVITIES[i].description
                        /\ a.schedule = INITIAL_ACTIVITIES[i].schedule
              /\ SeededEmails \subseteq participant)

C9_Witness ==
    /\ boot = "up"
    /\ PriorStudents[1] \in Activity_participants(ActivityRow(MathClub))
    /\ \E e \in Emails : e \in Activity_participants(ActivityRow(MathClub))

\* C10: every pair of the association table joins an activity of the
\* catalog and a participant of the directory, and for every activity A
\* and participant P, P is among A's participants exactly when A is among
\* P's activities: the pairs <<A, P>> read through Activity.participants
\* are the pairs read through Participant.activities.
C10_ReferentialSymmetry ==
    /\ \A l \in activity_participants :
          /\ \E a \in activity : a.id = l[1]
          /\ l[2] \in participant
    /\ UNION {{<<a.id, p>> : p \in Activity_participants(a)} : a \in activity}
          = UNION {{<<a.id, p>> : a \in Participant_activities(p)} : p \in participant}

C10_Witness ==
    \E t \in Workers :
        /\ SignedUpBy(t)
        /\ req[t].email \in Activity_participants(RowOf(req[t]))
        /\ RowOf(req[t]) \in Participant_activities(req[t].email)

\* C11: a participant is never deleted: every step keeps every email of
\* table participant, also the unregister that leaves an email with no
\* activity at all; the set of emails only grows.
C11_ParticipantsNeverDeleted ==
    [][participant \subseteq participant']_vars

C11_Witness ==
    \E t \in Workers :
        /\ pc[t] = "done" /\ req[t].op = "unregister" /\ response[t].status = 200
        /\ req[t].email \in participant
        /\ Participant_activities(req[t].email) = {}

\* C12: get_activities returns a mapping with one entry per row of table
\* activity, keyed by the row's name; the entry holds the row's name,
\* description, schedule and max_participants and, as participants, exactly
\* the emails the association table joins to the row; the mapping is empty
\* when the table is; and no step of the request changes a table or leaves
\* a statement pending.
ListSteps(t) ==
    /\ req'[t].op = "list" /\ pc[t] # "done"
    /\ <<pc'[t], activities_l'[t]>> # <<pc[t], activities_l[t]>>

C12_ListActivities ==
    [][\A t \in Workers :
          ListSteps(t) =>
              /\ tables' = tables
              /\ txVars' = txVars
              /\ pc'[t] = "done" =>
                    /\ response'[t].status = 200
                    /\ DOMAIN response'[t].detail = {a.name : a \in activity}
                    /\ activity = {} => response'[t].detail = <<>>
                    /\ \A a \in activity :
                          LET entry == response'[t].detail[a.name]
                          IN  /\ DOMAIN entry = {"name", "description", "schedule",
                                                 "max_participants", "participants"}
                              /\ entry.name = a.name
                              /\ entry.description = a.description
                              /\ entry.schedule = a.schedule
                              /\ entry.max_participants = a.max_participants
                              /\ entry.participants =
                                    {l[2] : l \in {k \in activity_participants :
                                                      k[1] = a.id}}]_vars

C12_Witness ==
    \E t \in Workers :
        /\ pc[t] = "done" /\ req[t].op = "list" /\ response[t].status = 200
        /\ Cardinality(DOMAIN response[t].detail) = Len(INITIAL_ACTIVITIES)
        /\ \E e \in Emails : e \in response[t].detail["Math Club"].participants
        /\ \E e \in Emails : e \in participant
                               /\ e \notin response[t].detail["Math Club"].participants

\* C13: every sign-up and every unregister is answered 200, 404 or 400 and
\* nothing else; it is answered 404 exactly when its activity is not in the
\* catalog; and the answers "Student is already signed up", "Activity is
\* full" and "Student is not signed up for this activity" all have status
\* 400, so the status tells the unknown activity from the broken rule.
C13_FailureKinds ==
    \A t \in Workers :
        (pc[t] = "done" /\ req[t].op \in {"signup", "unregister"}) =>
            /\ response[t].status \in {200, 404, 400}
            /\ response[t].status = 404 <=> ~Known(req[t])
            /\ response[t].detail \in
                    { <<"Student is already signed up">>, <<"Activity is full">>,
                      <<"Student is not signed up for this activity">> }
                  <=> response[t].status = 400

\* C14: every request that has arrived, a sign-up, an unregister or a
\* listing, is answered in the end, with a status; and when a request has
\* ended, by success, 404, 400 or a failed commit, its worker holds no write
\* lock and nothing of its session is left: no row it loaded and no
\* statement pending.  No request waits for another for ever.
C14_CompletesAndReleases ==
    /\ \A t \in Workers : InFlight(t) ~> (pc[t] = "done")
    /\ [](\A t \in Workers :
            /\ pc[t] = "done" => response[t].status \in {200, 400, 404, 500}
            /\ ~InFlight(t) =>
                  /\ writer # t
                  /\ activity_l[t] = 0 /\ participant_l[t] = FALSE
                  /\ activities_l[t] = <<>>)
    /\ [](writer = 0 => pending = NoPending)

C14_Witness ==
    \E t, u \in Workers :
        /\ pc[t] = "done" /\ response[t].status = 500
        /\ writer = u /\ InFlight(u) /\ u # t

\* C15: a step of a sign-up or an unregister for activity A and email E,
\* whatever its answer, leaves table activity as it is (every name,
\* description, schedule and max_participants), leaves the participants of
\* every activity but A as they are, and changes among the participants of
\* A at most E.
C15_MutationFrame ==
    [][\A t \in Workers :
          (Steps(t) /\ req'[t].op \in {"signup", "unregister"}) =>
              /\ activity' = activity
              /\ \A a \in activity :
                    LET before == Activity_participants(a)
                        after == Activity_participants(a)'
                    IN  IF a.name = req'[t].activity_name
                        THEN (before \ after) \cup (after \ before)
                                 \subseteq {req'[t].email}
                        ELSE after = before]_vars

C15_Witness ==
    \E t \in Workers :
        /\ pc[t] = "done" /\ req[t].op = "unregister" /\ response[t].status = 200
        /\ req[t].email \notin Activity_participants(RowOf(req[t]))
        /\ \E e \in Emails : e \in Activity_participants(RowOf(req[t]))

\* C16: a sign-up decides the activity first, then whether the pair is
\* registered, then the capacity: a sign-up for a pair that is registered
\* in an activity that is full is answered "Student is already signed up"
\* and not "Activity is full"; "Activity is full" is only ever the answer
\* for a pair that is not registered; and a sign-up for an activity that is
\* not in the catalog is answered 404 at its first step, whether its email
\* is known, registered somewhere, or new.
C16_OrderOfChecks ==
    [][\A t \in Workers :
          (Steps(t) /\ req'[t].op = "signup") =>
              /\ ~Known(req'[t]) =>
                    /\ pc[t] = "idle" /\ pc'[t] = "done"
                    /\ Answer(t, 404, <<"Activity not found">>)
              /\ (Finishes(t) /\ Registered(req'[t]) /\ Full(req'[t])) =>
                    Answer(t, 400, <<"Student is already signed up">>)
              /\ (Finishes(t) /\ Answer(t, 400, <<"Activity is full">>)) =>
                    (Known(req'[t]) /\ ~Registered(req'[t]) /\ pc[t] = "check_full")
              /\ pc'[t] = "check_full" => pc[t] = "check_signed_up"
              /\ pc'[t] = "check_signed_up" => pc[t] = "query_participant"
              /\ pc'[t] = "query_participant" => (pc[t] = "idle" /\ Known(req'[t]))]_vars

C16_Witness ==
    \E t \in Workers :
        /\ pc[t] = "done" /\ req[t].op = "signup"
        /\ Registered(req[t]) /\ Full(req[t])
        /\ response[t] = [status |-> 400, detail |-> <<"Student is already signed up">>]

\* C17: a participant is created only by a sign-up that succeeds, and only
\* when its email is not in table participant: the step that answers 200
\* adds exactly the request's email when the table did not hold it and adds
\* nothing when it did; every other step of a sign-up, and the step that
\* answers 404 or 400, adds nothing, also when the email is unknown.
C17_LazyParticipantCreation ==
    [][\A t \in Workers :
          (Steps(t) /\ req'[t].op = "signup") =>
              IF Finishes(t) /\ response'[t].status = 200
              THEN /\ req[t].email \notin participant =>
                         /\ participant' \ participant = {req[t].email}
                         /\ Cardinality(participant') = Cardinality(participant) + 1
                         /\ ~participant_l[t]
                   /\ req[t].email \in participant => participant' = participant
              ELSE participant' = participant]_vars

C17_Witness ==
    \E t \in Workers :
        /\ pc[t] = "done" /\ req[t].op = "signup"
        /\ response[t].status = 400
        /\ response[t].detail = <<"Activity is full">>
        /\ req[t].email \notin participant

\* C18: a sign-up for a pair that is not registered, answered 200, and
\* then an unregister for the same pair with no request between them,
\* leave the association table exactly as it was before the sign-up (the
\* email may be new in table participant): whatever table the caller
\* starts from, it is that table again after every unregister.
C18_RoundTrip ==
    \A free \in 0..NumWorkers :
        (activity_participants = UsedStore(free)[3]) =>
            [](\A t \in Workers :
                  (pc[t] = "done" /\ req[t].op = "unregister") =>
                      /\ response[t].status = 200
                      /\ activity_participants = UsedStore(free)[3])

C18_Witness ==
    \E t \in Workers :
        /\ pc[t] = "done" /\ req[t].op = "unregister" /\ response[t].status = 200
        /\ req[t].email \in participant \ UsedStore(0)[2]
        /\ \E free \in 0..NumWorkers : activity_participants = UsedStore(free)[3]

\* C19: the place an unregister frees can be taken again: when Math Club
\* is full and an unregister for one of its participants has been answered
\* 200, the club has one place free, and the sign-up that follows with no
\* request between, for an email that is not registered, is answered 200
\* and leaves the club full again.
C19_FreedSlotReusable ==
    /\ [][\A t \in Workers :
            Finishes(t) =>
                /\ response'[t].status = 200
                /\ req[t].op = "unregister" =>
                      (MathClubIsFull /\ Cardinality(MathClubRoster') =
                                            Cardinality(MathClubRoster) - 1)
                /\ req[t].op = "signup" =>
                      (~MathClubIsFull /\ MathClubIsFull'
                          /\ req[t].email \in MathClubRoster')]_vars
    /\ [](~MathClubIsFull =>
              Cardinality(MathClubRoster) + 1 =
                  ActivityRow(QueryActivity("Math Club")).max_participants)

C19_Witness ==
    \E t \in Workers :
        /\ SignedUpBy(t) /\ MathClubIsFull
        /\ req[t].email \in MathClubRoster
        /\ \E l \in UsedStore(0)[3] : l \notin activity_participants

\* C20: of the sign-ups for one pair that run side by side, in whatever
\* order their queries, checks and commits fall, at most one is answered
\* 200; the one that is has put the pair into the association table, and
\* no other has a statement for the pair pending or has changed a table:
\* the pair is stored once.
C20_SamePairOnce ==
    LET won == {t \in Workers : pc[t] = "done" /\ response[t].status = 200}
    IN  /\ Cardinality(won) <= 1
        /\ \A t \in won : Registered(req[t])
        /\ \A t \in Workers :
              (won # {} /\ t \notin won) => (writer # t /\ pc[t] # "commit")

C20_Witness ==
    \E t, u \in Workers :
        /\ pc[t] = "done" /\ response[t].status = 200
        /\ pc[u] = "done"
        /\ response[u].detail = <<"IntegrityError: activity_participants">>
        /\ req[u] = req[t]

====
